---- MODULE Spec2Model ----
(***************************************************************************)
(* Model of theClimberDiary's server bootstrap (src/main.py): the scoped   *)
(* listener lifecycle with_application_server, the ping handler, the route *)
(* table built by _make_app and the logger set up by the __main__ block.   *)
(*                                                                         *)
(* Scheduling: one cooperative event loop.  The coroutine                   *)
(* with_application_server runs atomically from one await to the next;     *)
(* request handlers are other tasks of the same loop and run only while    *)
(* that coroutine is suspended at an await (pc \in Suspended).  A client    *)
(* connects while the listener accepts and then sends its requests on the  *)
(* connection, which the server keeps alive until runner.cleanup() ends.   *)
(* Header values and response bodies are text: sequences of one-character  *)
(* strings.                                                                *)
(***************************************************************************)
EXTENDS Integers, Sequences, FiniteSets, TLC

VARIABLES
    pc,          \* position of the with_application_server coroutine
    use_ssl,     \* the use_ssl argument
    env,         \* state of the TLS material named by the SSL_* environment
    ssl_ctx,     \* "none" or "ctx"
    failure,     \* which startup step raised: "none", "tls", "setup", "bind"
    runner,      \* AppRunner: "none", "created", "setup", "cleaned"
    listener,    \* TCPSite socket: "unbound", "accepting", "closed"
    step,        \* Server._step
    handlers,    \* handlers attached to the root logger
    logFile,     \* lines of log.log
    stderr,      \* lines written to the stderr stream
    connection,  \* a client's keep-alive connection: "none" or "open"
    resp,        \* the last response sent
    nreq,        \* number of requests handled
    cleanups,    \* number of completed runner.cleanup() calls
    exitReason,  \* how the body of the scope ended
    history      \* lifecycle events in the order they happened

vars == <<pc, use_ssl, env, ssl_ctx, failure, runner, listener, step, handlers,
          logFile, stderr, connection, resp, nreq, cleanups, exitReason, history>>

-----------------------------------------------------------------------------
(* Bounds *)

MaxRequests == 2

MaxV == 1

-----------------------------------------------------------------------------
(* Text helpers: Python's int(str) and the decimal text of an int.  A text  *)
(* is a sequence of Unicode code points.                                    *)

\* the interpreter's limit on the digits of an int converted from or to
\* decimal text (sys.get_int_max_str_digits())
MaxStrDigits == 4300

\* code points of the digit zero of every Unicode decimal-digit block; the
\* digits 0..9 of a block are consecutive
DigitZeros ==
    {48, 1632, 1776, 1984, 2406, 2534, 2662, 2790,
     2918, 3046, 3174, 3302, 3430, 3558, 3664, 3792,
     3872, 4160, 4240, 6112, 6160, 6470, 6608, 6784,
     6800, 6992, 7088, 7232, 7248, 42528, 43216, 43264,
     43472, 43504, 43600, 44016, 65296, 66720, 68912, 69734,
     69872, 69942, 70096, 70384, 70736, 70864, 71248, 71360,
     71472, 71904, 72016, 72784, 73040, 73120, 92768, 92864,
     93008, 120782, 120792, 120802, 120812, 120822, 123200, 123632,
     125264, 130032}

IsDigit(c) == c \in 48..57 \/ (c > 127 /\ \E z \in DigitZeros : c \in z..(z + 9))

DigitVal(c) == c - (CHOOSE z \in DigitZeros : c \in z..(z + 9))

\* the whitespace int() skips on both ends of the text
IsSpace(c) ==
    c \in (9..13) \cup {32, 133, 160, 5760} \cup (8192..8202)
          \cup {8232, 8233, 8239, 8287, 12288}

RECURSIVE LStrip(_)
LStrip(s) == IF s # <<>> /\ IsSpace(Head(s)) THEN LStrip(Tail(s)) ELSE s

RECURSIVE RStrip(_)
RStrip(s) ==
    IF s # <<>> /\ IsSpace(s[Len(s)]) THEN RStrip(SubSeq(s, 1, Len(s) - 1)) ELSE s

Strip(s) == RStrip(LStrip(s))

\* the text after an optional leading sign, "+" (43) or "-" (45)
Unsigned(s) == IF s # <<>> /\ Head(s) \in {43, 45} THEN Tail(s) ELSE s

\* digits, with single underscores (95) allowed only between two digits
IsDigitBody(d) ==
    /\ d # <<>>
    /\ IsDigit(d[1])
    /\ IsDigit(d[Len(d)])
    /\ \A i \in 1..Len(d) : IsDigit(d[i]) \/ d[i] = 95
    /\ \A i \in 1..(Len(d) - 1) : ~(d[i] = 95 /\ d[i + 1] = 95)

\* number of digits of a digit body, its underscores not counted
DigitCount(d) ==
    IF Len(d) <= MaxStrDigits THEN Len(d) - Cardinality({i \in 1..Len(d) : d[i] = 95})
    ELSE Cardinality({i \in 1..Len(d) : d[i] # 95})

\* int(s) does not raise ValueError: s is an integer literal of at most
\* MaxStrDigits digits
IsIntLiteral(s) ==
    /\ DigitCount(Unsigned(Strip(s))) <= MaxStrDigits
    /\ IsDigitBody(Unsigned(Strip(s)))

RECURSIVE DigitsValue(_, _)
DigitsValue(d, acc) ==
    IF d = <<>> THEN acc
    ELSE IF Head(d) = 95 THEN DigitsValue(Tail(d), acc)
    ELSE DigitsValue(Tail(d), 10 * acc + DigitVal(Head(d)))

\* int(s) for a text s that IsIntLiteral
ParseInt(s) ==
    LET t == Strip(s)
        v == DigitsValue(Unsigned(t), 0)
    IN  IF t # <<>> /\ Head(t) = 45 THEN 0 - v ELSE v

RECURSIVE NatToStr(_)
NatToStr(n) ==
    IF n < 10 THEN <<48 + n>>
    ELSE Append(NatToStr(n \div 10), 48 + (n % 10))

\* str(n) and json.dumps(n) of an int n
IntToStr(n) == IF n < 0 THEN <<45>> \o NatToStr(0 - n) ELSE NatToStr(n)

\* str(n) raises ValueError: n has more than MaxStrDigits digits
StrRaises(n) == Len(NatToStr(IF n < 0 THEN 0 - n ELSE n)) > MaxStrDigits

-----------------------------------------------------------------------------
(* Logging: the root logger configured by the __main__ block *)

\* the root logger's handlers once the __main__ block has run: the FileHandler
\* for log.log is created and given its formatter, but never attached
RootHandlersAtStart == {}

\* format of the handler logging.basicConfig() installs
BasicFormat == "%(levelname)s:%(name)s:%(message)s"

\* format given to the FileHandler
FileFormat == "%(asctime)s %(levelname)s %(message)s"

LogLine(fmt, msg) == [fmt |-> fmt, level |-> "INFO", msg |-> msg]

\* logging.info() on a root logger without handlers first calls basicConfig(),
\* which attaches a stderr StreamHandler
HandlersAfterInfo(hs) == IF hs = {} THEN {"stderr"} ELSE hs

\* logging.info(msg): every attached handler emits one line in its own format
logging_info(msg) ==
    /\ handlers' = HandlersAfterInfo(handlers)
    /\ stderr' = IF "stderr" \in HandlersAfterInfo(handlers)
                 THEN Append(stderr, LogLine(BasicFormat, msg))
                 ELSE stderr
    /\ logFile' = IF "file" \in HandlersAfterInfo(handlers)
                  THEN Append(logFile, LogLine(FileFormat, msg))
                  ELSE logFile

StartMsg == [event |-> "Starting server", value |-> <<>>]

ShutdownMsg == [event |-> "Shutting down server", value |-> <<>>]

\* f'Handling ping with value {value}': a missing header is formatted as None
PingMsg(value) ==
    [event |-> "Handling ping",
     value |-> IF value.present THEN value.text ELSE <<78, 111, 110, 101>>]

-----------------------------------------------------------------------------
(* Server and the route table *)

\* Server.__init__: self._step
Offset == 2

\* request.headers.get('value'): the header's text, or None when absent
NoHeader == [present |-> FALSE, text |-> <<>>]

HeaderOf(s) == [present |-> TRUE, text |-> s]

\* routes _make_app registers on the application's router
Registered == {"/page", "/ping"}

\* routes _make_app hands to cors.add(): the /ping resource and its GET route
CorsEnabled == {"/ping"}

\* whether a response of the route gets the Access-Control-* headers (for a
\* request that carries an Origin header)
HasCors(route) == route \in CorsEnabled

NoResp == [route |-> "none", arg |-> NoHeader, file |-> "", status |-> 0,
           body |-> <<>>, cors |-> FALSE]

\* body of the 500 answer, abbreviated to its status text "500"
ServerError == <<53, 48, 48>>

\* Server.handle_ping: int(None) raises TypeError, int() of a text that is no
\* integer literal (or has too many digits) raises ValueError, and json.dumps
\* raises ValueError for a sum of too many digits; the web server answers an
\* exception that is no HTTPException with 500
handle_ping(value, st) ==
    LET failed == [route |-> "/ping", arg |-> value, file |-> "", status |-> 500,
                   body |-> ServerError, cors |-> HasCors("/ping")]
    IN  IF ~(value.present /\ IsIntLiteral(value.text)) THEN failed
        ELSE IF StrRaises(ParseInt(value.text) + st) THEN failed
        ELSE [route |-> "/ping", arg |-> value, file |-> "", status |-> 200,
              body |-> IntToStr(ParseInt(value.text) + st),
              cors |-> HasCors("/ping")]

\* the static route /page: the file's content (here the one byte "f"), or 404
\* for a missing file
handle_page(file) ==
    [route |-> "/page", arg |-> NoHeader, file |-> file,
     status |-> IF file = "existing" THEN 200 ELSE 404,
     body |-> IF file = "existing" THEN <<102>> ELSE <<>>,
     cors |-> HasCors("/page")]

-----------------------------------------------------------------------------
(* Inputs *)

TlsMaterial == {"ok", "unset", "mismatched"}

ExitReasons == {"return", "cancel", "exception"}

\* integers sent as the header value: a range around zero and two whose
\* sum with the offset has another number of digits than they have
Values == ((0 - MaxV)..MaxV) \cup {0 - 10, 99}

\* "abc"
Malformed == {<<97, 98, 99>>}

\* "1_0"
Unusual == {<<49, 95, 48>>}

HeaderInputs ==
    {NoHeader} \cup {HeaderOf(s) : s \in Malformed \cup Unusual}
               \cup {HeaderOf(IntToStr(v)) : v \in Values}

\* further integers for the handler taken on its own
PingValues == Values \cup {0 - 100, 0 - 3, 0 - 2, 7, 8, 9, 98, 100, 12345}

\* "", "1_", "\x1c7", "1.5", "1__0", "- 1", "--1", "+", "_1", "1 1"
MoreMalformed == {<<>>, <<49, 95>>, <<28, 55>>, <<49, 46, 53>>,
                  <<49, 95, 95, 48>>, <<45, 32, 49>>, <<45, 45, 49>>, <<43>>,
                  <<95, 49>>, <<49, 32, 49>>}

\* " 7 ", "\n7", ARABIC-INDIC "12", "+7", "007", "-0", "7\r\n", NBSP "7",
\* "-" FULLWIDTH "7", "\t" DEVANAGARI "5"
MoreUnusual == {<<32, 55, 32>>, <<10, 55>>, <<1633, 1634>>, <<43, 55>>,
                <<48, 48, 55>>, <<45, 48>>, <<55, 13, 10>>, <<160, 55>>,
                <<45, 65303>>, <<9, 2411>>}

\* a decimal text of one digit more than int() converts
TooLong == [i \in 1..(MaxStrDigits + 1) |-> 49]

\* header values for the handler taken on its own
PingInputs ==
    HeaderInputs
        \cup {HeaderOf(IntToStr(v)) : v \in PingValues}
        \cup {HeaderOf(s) : s \in MoreMalformed \cup MoreUnusual \cup {TooLong}}

Files == {"existing", "missing"}

\* positions at which the coroutine is suspended and other tasks may run
Suspended == {"await_setup", "await_start", "body", "await_cleanup", "await_sleep"}

-----------------------------------------------------------------------------
(* State after the __main__ block and run() have built the logger, the      *)
(* Server and the app, when with_application_server is entered              *)

Init ==
    /\ pc = "start"
    /\ use_ssl \in BOOLEAN
    /\ env \in TlsMaterial
    /\ ssl_ctx = "none"
    /\ failure = "none"
    /\ runner = "none"
    /\ listener = "unbound"
    /\ step = Offset
    /\ handlers = RootHandlersAtStart
    /\ logFile = <<>>
    /\ stderr = <<>>
    /\ connection = "none"
    /\ resp = NoResp
    /\ nreq = 0
    /\ cleanups = 0
    /\ exitReason = "none"
    /\ history = <<>>

-----------------------------------------------------------------------------
(* with_application_server *)

\* variant: a TLS error is recorded but the server goes on to serve plain TCP
BuildContextLenient ==
    /\ pc = "start"
    /\ pc' = "await_setup"
    /\ failure' = IF use_ssl /\ env # "ok" THEN "tls" ELSE "none"
    /\ ssl_ctx' = IF use_ssl /\ env = "ok" THEN "ctx" ELSE "none"
    /\ runner' = "created"
    /\ history' = Append(history, "setup_called")
    /\ UNCHANGED <<use_ssl, env, listener, step, handlers, logFile, stderr, resp,
                   nreq, cleanups, exitReason,
                   connection>>

\* lines 14-30: build the TLS context when use_ssl, create the runner and call
\* runner.setup(); missing or bad TLS material raises before the runner exists
BuildContext ==
    /\ pc = "start"
    /\ IF use_ssl /\ env # "ok"
       THEN /\ pc' = "failed"
            /\ failure' = "tls"
            /\ history' = Append(history, "tls_error")
            /\ UNCHANGED <<ssl_ctx, runner>>
       ELSE /\ pc' = "await_setup"
            /\ ssl_ctx' = IF use_ssl THEN "ctx" ELSE "none"
            /\ runner' = "created"
            /\ history' = Append(history, "setup_called")
            /\ UNCHANGED failure
    /\ UNCHANGED <<use_ssl, env, listener, step, handlers, logFile, stderr, resp,
                   nreq, cleanups, exitReason,
                   connection>>

\* lines 30-32: runner.setup() returns or raises; then the site is created
\* and site.start() is called
RunnerSetup ==
    /\ pc = "await_setup"
    /\ \E ok \in BOOLEAN :
        IF ok
        THEN /\ pc' = "await_start"
             /\ runner' = "setup"
             /\ history' = Append(history, "start_called")
             /\ UNCHANGED failure
        ELSE /\ pc' = "failed"
             /\ failure' = "setup"
             /\ history' = Append(history, "setup_error")
             /\ UNCHANGED runner
    /\ UNCHANGED <<use_ssl, env, ssl_ctx, listener, step, handlers, logFile,
                   stderr, resp, nreq, cleanups, exitReason,
                   connection>>

\* variant: site.start() inside the try block, so that a failed bind runs the
\* finally block
SiteStartInsideTry ==
    /\ pc = "await_start"
    /\ \E portFree \in BOOLEAN :
        IF portFree
        THEN /\ listener' = "accepting"
             /\ logging_info(StartMsg)
             /\ pc' = "body"
             /\ history' = history \o <<"started", "log_start", "body">>
             /\ UNCHANGED <<failure, runner, cleanups>>
        ELSE /\ pc' = "failed"
             /\ failure' = "bind"
             /\ logging_info(ShutdownMsg)
             /\ runner' = "cleaned"
             /\ cleanups' = cleanups + 1
             /\ history' = history \o <<"bind_error", "log_shutdown", "cleanup_called">>
             /\ UNCHANGED listener
    /\ UNCHANGED <<use_ssl, env, ssl_ctx, step, resp, nreq, exitReason,
                   connection>>

\* lines 32-37: site.start() binds the port and returns, the start line is
\* logged and control is yielded to the body; or the bind fails (port in use)
\* and the exception leaves the function, which is outside the try block
SiteStart ==
    /\ pc = "await_start"
    /\ \E portFree \in BOOLEAN :
        IF portFree
        THEN /\ listener' = "accepting"
             /\ logging_info(StartMsg)
             /\ pc' = "body"
             /\ history' = history \o <<"started", "log_start", "body">>
             /\ UNCHANGED failure
        ELSE /\ pc' = "failed"
             /\ failure' = "bind"
             /\ history' = Append(history, "bind_error")
             /\ UNCHANGED <<listener, handlers, logFile, stderr>>
    /\ UNCHANGED <<use_ssl, env, ssl_ctx, runner, step, resp, nreq, cleanups,
                   exitReason,
                   connection>>

\* lines 37-41: the body ends (returns, is cancelled or raises), the finally
\* block logs the shutdown line and calls runner.cleanup(), which stops the
\* site (closes the listening socket) before it first suspends
BodyExit(reason) ==
    /\ pc = "body"
    /\ exitReason' = reason
    /\ logging_info(ShutdownMsg)
    /\ listener' = "closed"
    /\ pc' = "await_cleanup"
    /\ history' = history \o <<"log_shutdown", "cleanup_called">>
    /\ UNCHANGED <<use_ssl, env, ssl_ctx, failure, runner, step, resp, nreq,
                   cleanups,
                   connection>>

\* variant: no delay after the cleanup
CleanupDoneNoDelay ==
    /\ pc = "await_cleanup"
    /\ runner' = "cleaned"
    /\ cleanups' = cleanups + 1
    /\ connection' = "none"
    /\ pc' = "exited"
    /\ history' = history \o <<"cleanup_done", "exit">>
    /\ UNCHANGED <<use_ssl, env, ssl_ctx, failure, listener, step, handlers,
                   logFile, stderr, resp, nreq, exitReason>>

\* lines 41-42: runner.cleanup() completes, having closed the connections
\* that were still open, and asyncio.sleep(.01) is called
CleanupDone ==
    /\ pc = "await_cleanup"
    /\ runner' = "cleaned"
    /\ cleanups' = cleanups + 1
    /\ connection' = "none"
    /\ pc' = "await_sleep"
    /\ history' = Append(history, "cleanup_done")
    /\ UNCHANGED <<use_ssl, env, ssl_ctx, failure, listener, step, handlers,
                   logFile, stderr, resp, nreq, exitReason>>

\* line 42: the delay elapses and the scope exits
SleepDone ==
    /\ pc = "await_sleep"
    /\ pc' = "exited"
    /\ history' = history \o <<"delay_done", "exit">>
    /\ UNCHANGED <<use_ssl, env, ssl_ctx, failure, runner, listener, step,
                   handlers, logFile, stderr, resp, nreq, cleanups, exitReason,
                   connection>>

------------------------------------------------------------------------\* lines 41-42: the task is cancelled while the finally block is suspended
\* in runner.cleanup() or in the delay: CancelledError leaves the block at
\* once and the scope exits without the steps that remained
ShutdownCancelled ==
    /\ pc \in {"await_cleanup", "await_sleep"}
    /\ pc' = "exited"
    /\ history' = history \o <<"shutdown_cancelled", "exit">>
    /\ UNCHANGED <<use_ssl, env, ssl_ctx, failure, runner, listener, step,
                   handlers, logFile, stderr, resp, nreq, cleanups, exitReason,
                   connection>>

-----------------------------------------------------------------------------
(* Connections and requests.  The listener accepts a new connection only   *)
(* while its socket is open; a request is served on an open connection,     *)
(* also one that arrives while runner.cleanup() is suspended and has not    *)
(* yet closed the connection.                                               *)

\* a client connects: the listening socket created by site.start() accepts
Connect ==
    /\ listener = "accepting"
    /\ pc \in Suspended
    /\ connection = "none"
    /\ connection' = "open"
    /\ UNCHANGED <<pc, use_ssl, env, ssl_ctx, failure, runner, listener, step,
                   handlers, logFile, stderr, resp, nreq, cleanups, exitReason,
                   history>>

\* the client closes its connection
Disconnect ==
    /\ connection = "open"
    /\ pc \in Suspended
    /\ connection' = "none"
    /\ UNCHANGED <<pc, use_ssl, env, ssl_ctx, failure, runner, listener, step,
                   handlers, logFile, stderr, resp, nreq, cleanups, exitReason,
                   history>>

\* variant: the handler advances the offset on every request
HandlePingDrift(value) ==
    /\ connection = "open"
    /\ pc \in Suspended
    /\ nreq < MaxRequests
    /\ logging_info(PingMsg(value))
    /\ resp' = handle_ping(value, step)
    /\ step' = step + 1
    /\ nreq' = nreq + 1
    /\ history' = Append(history, IF resp'.status = 200
                                   THEN "ping_ok" ELSE "ping_err")
    /\ UNCHANGED <<pc, use_ssl, env, ssl_ctx, failure, runner, listener,
                   cleanups, exitReason,
                   connection>>

\* variant: an exception of the handler escapes to the event loop and ends the
\* scope
HandlePingCrash(value) ==
    /\ connection = "open"
    /\ pc \in Suspended
    /\ nreq < MaxRequests
    /\ logging_info(PingMsg(value))
    /\ resp' = handle_ping(value, step)
    /\ nreq' = nreq + 1
    /\ history' = Append(history, IF resp'.status = 200
                                   THEN "ping_ok" ELSE "ping_err")
    /\ IF resp'.status = 200
       THEN UNCHANGED <<pc, listener>>
       ELSE pc' = "failed" /\ listener' = "closed"
    /\ UNCHANGED <<use_ssl, env, ssl_ctx, failure, runner, step, cleanups,
                   exitReason,
                   connection>>

\* GET /ping with the given 'value' header, on the open connection
HandlePing(value) ==
    /\ connection = "open"
    /\ pc \in Suspended
    /\ nreq < MaxRequests
    /\ logging_info(PingMsg(value))
    /\ resp' = handle_ping(value, step)
    /\ nreq' = nreq + 1
    /\ history' = Append(history, IF resp'.status = 200
                                   THEN "ping_ok" ELSE "ping_err")
    /\ UNCHANGED <<pc, use_ssl, env, ssl_ctx, failure, runner, listener, step,
                   cleanups, exitReason,
                   connection>>

\* GET /page/<file>, on the open connection
HandlePage(file) ==
    /\ connection = "open"
    /\ pc \in Suspended
    /\ nreq < MaxRequests
    /\ resp' = handle_page(file)
    /\ nreq' = nreq + 1
    /\ history' = Append(history, IF resp'.status = 200
                                   THEN "page_ok" ELSE "page_err")
    /\ UNCHANGED <<pc, use_ssl, env, ssl_ctx, failure, runner, listener, step,
                   handlers, logFile, stderr, cleanups, exitReason,
                   connection>>

Next ==
    \/ BuildContext
    \/ RunnerSetup
    \/ SiteStart
    \/ \E reason \in ExitReasons : BodyExit(reason)
    \/ CleanupDone
    \/ SleepDone
    \/ ShutdownCancelled
    \/ Connect
    \/ Disconnect
    \/ \E value \in HeaderInputs : HandlePing(value)
    \/ \E file \in Files : HandlePage(file)

Spec == Init /\ [][Next]_vars

-----------------------------------------------------------------------------
(* The ping handler on its own: the server is serving (the state Spec reaches *)
(* when SiteStart succeeds); a client connects and sends pings with any of  *)
(* PingInputs                                                               *)

ServingInit ==
    /\ pc = "body"
    /\ use_ssl \in BOOLEAN
    /\ env = "ok"
    /\ ssl_ctx = IF use_ssl THEN "ctx" ELSE "none"
    /\ failure = "none"
    /\ runner = "setup"
    /\ listener = "accepting"
    /\ step = Offset
    /\ handlers = {"stderr"}
    /\ logFile = <<>>
    /\ stderr = <<LogLine(BasicFormat, StartMsg)>>
    /\ connection = "none"
    /\ resp = NoResp
    /\ nreq = 0
    /\ cleanups = 0
    /\ exitReason = "none"
    /\ history = <<"setup_called", "start_called", "started", "log_start", "body">>

ServingNext ==
    \/ Connect
    \/ \E value \in PingInputs : HandlePing(value)

ServingSpec == ServingInit /\ [][ServingNext]_vars

-----------------------------------------------------------------------------
(* Properties *)

Happened(e) == \E i \in DOMAIN history : history[i] = e

\* C1: when the scope has exited after the listener was started, whatever
\* ended the body (return, cancellation, exception), runner.cleanup() has run
\* and the port is no longer bound.
ScopeExitReleasesPort ==
    (pc = "exited" /\ Happened("started")) =>
        /\ exitReason \in ExitReasons
        /\ listener = "closed"
        /\ runner = "cleaned"
        /\ cleanups >= 1

\* what str() of an integer gives: ASCII digits without a leading zero,
\* after "-" for a negative one
IsDecimalText(s) ==
    LET d == IF s # <<>> /\ Head(s) = 45 THEN Tail(s) ELSE s
    IN  /\ d # <<>>
        /\ \A i \in 1..Len(d) : d[i] \in 48..57
        /\ Len(d) > 1 => d[1] # 48
        /\ ~(d = <<48>> /\ Len(s) = 2)

PingAnswersSum ==
    \A v \in PingValues :
        (resp.route = "/ping" /\ resp.arg = HeaderOf(IntToStr(v))) =>
            (resp.status = 200 /\ resp.body = IntToStr(v + Offset))

\* C2 (as stated): a ping whose header is the decimal text of any integer v is
\* answered 200 with the decimal text of v + Offset, after any earlier
\* requests, and the server's offset stays the one set at construction.
PingAddsOffsetToAnyInteger ==
    /\ step = Offset
    /\ PingAnswersSum
    /\ (resp.route = "/ping" /\ IsDecimalText(resp.arg.text)) => resp.status = 200

\* C2 (amended): a ping whose header is the decimal text of an integer v is
\* answered 200 with the decimal text of v + Offset whenever v and v + Offset
\* have at most MaxStrDigits digits, after any earlier requests; the server's
\* offset stays the one set at construction.
PingAddsOffset ==
    /\ step = Offset
    /\ PingAnswersSum
    /\ (resp.route = "/ping" /\ IsDecimalText(resp.arg.text)
            /\ Len(resp.arg.text) < MaxStrDigits) => resp.status = 200

PingAfterBadPing ==
    /\ nreq >= 2
    /\ Happened("ping_err")
    /\ resp.route = "/ping"
    /\ resp.arg = HeaderOf(<<57, 57>>)
    /\ resp.body = <<49, 48, 49>>

IsClientError(status) == status \in 400..499

\* C3: a ping whose 'value' header is absent or is not the text of a base-10
\* integer is answered with a 4xx status.
BadPingIsClientError ==
    (resp.route = "/ping" /\ ~(resp.arg.present /\ IsIntLiteral(resp.arg.text)))
        => IsClientError(resp.status)

\* C4: every response, of either route and of any status, carries the
\* CORS headers permitting any origin.
EveryResponseHasCors == resp.route \in Registered => resp.cors

\* C5: once building the TLS context has failed, the port is never bound and no
\* request is ever served.
TlsFailureNeverBinds ==
    failure = "tls" =>
        /\ pc = "failed"
        /\ listener = "unbound"
        /\ runner = "none"
        /\ connection = "none"
        /\ nreq = 0
        /\ ~Happened("started")

TlsFailed == failure = "tls" /\ use_ssl /\ env = "mismatched" /\ pc = "failed"

\* C6: a request is handled only after site.start() has returned and before
\* the finally block of the scope has been entered (the shutdown line logged).
LifecycleOrdering ==
    [][nreq' # nreq =>
        /\ Happened("started")
        /\ ~Happened("log_shutdown")
        /\ pc = "body"]_vars

IsFailedRequest(r) == r.route \in Registered /\ r.status >= 400

ValidPingAfterFailure ==
    \A v \in Values :
        ((Happened("ping_err") \/ Happened("page_err"))
            /\ resp.route = "/ping" /\ resp.arg = HeaderOf(IntToStr(v)))
        => (resp.status = 200 /\ resp.body = IntToStr(v + Offset))

IsLogged(e) == e \in {"log_start", "log_shutdown", "ping_ok", "ping_err"}

LoggedEvents == SelectSeq(history, IsLogged)

EventOfLine(line) ==
    IF line.msg = StartMsg THEN {"log_start"}
    ELSE IF line.msg = ShutdownMsg THEN {"log_shutdown"}
    ELSE {"ping_ok", "ping_err"}

\* C8: log.log holds one timestamped, leveled line per significant event
\* (startup, shutdown, each ping received), in event order.
LogFileRecordsEvents ==
    /\ Len(logFile) = Len(LoggedEvents)
    /\ \A i \in DOMAIN logFile :
        /\ logFile[i].fmt = FileFormat
        /\ LoggedEvents[i] \in EventOfLine(logFile[i])

IsShutdownEvent(e) ==
    e \in {"log_shutdown", "cleanup_called", "cleanup_done", "delay_done", "exit"}

ShutdownOrder ==
    <<"log_shutdown", "cleanup_called", "cleanup_done", "delay_done", "exit">>

ShutdownEvents == SelectSeq(history, IsShutdownEvent)

ShutdownInterrupted == Happened("shutdown_cancelled")

\* C9: on scope exit the shutdown line is logged, then runner.cleanup() runs to
\* completion (port released), then the delay elapses, and only then does the
\* scope exit: the steps that happen always happen in this order, and a
\* shutdown path that is not itself interrupted exits only after all of them.
ShutdownStepsInOrder ==
    /\ ~ShutdownInterrupted =>
        /\ Len(ShutdownEvents) <= Len(ShutdownOrder)
        /\ ShutdownEvents = SubSeq(ShutdownOrder, 1, Len(ShutdownEvents))
    /\ ShutdownInterrupted =>
        \E k \in 2..3 : ShutdownEvents = SubSeq(ShutdownOrder, 1, k) \o <<"exit">>
    /\ (pc = "exited" /\ ~ShutdownInterrupted) => ShutdownEvents = ShutdownOrder
    /\ pc = "await_sleep" => (listener = "closed" /\ runner = "cleaned")
    /\ pc \in {"await_cleanup", "await_sleep", "exited"} =>
           \E i \in DOMAIN stderr : stderr[i].msg = ShutdownMsg

ExitedAfterDelay ==
    pc = "exited" /\ Happened("delay_done") /\ cleanups = 1 /\ ~ShutdownInterrupted

IsCleanupCall(e) == e = "cleanup_called"

CleanupCalls == Len(SelectSeq(history, IsCleanupCall))

\* C10: runner.cleanup() is called only if startup completed, and then exactly
\* once by the time the scope has exited (and has completed once unless the
\* shutdown path was interrupted); when runner.setup() or site.start() fails
\* the exception leaves with the body never entered, no log line written and
\* the runner not cleaned up.
CleanupIffStarted ==
    /\ CleanupCalls <= 1
    /\ cleanups <= CleanupCalls
    /\ CleanupCalls = 1 => (Happened("started") /\ Happened("body"))
    /\ pc = "exited" => CleanupCalls = 1
    /\ (pc = "exited" /\ ~ShutdownInterrupted) => cleanups = 1
    /\ failure \in {"setup", "bind"} =>
        /\ pc = "failed"
        /\ ~Happened("body")
        /\ stderr = <<>>
        /\ logFile = <<>>
        /\ CleanupCalls = 0
        /\ cleanups = 0
        /\ runner # "cleaned"
        /\ listener = "unbound"

BindFailedNoCleanup == failure = "bind" /\ runner = "setup" /\ cleanups = 0

====
